---- MODULE Spec2Model ----
(***************************************************************************)
(* Model of the YouTube comment crawler (src/main.py) and of the two POST  *)
(* handlers of its HTTP service (src/api.py).                              *)
(*                                                                         *)
(* One request is processed from the entry of the handler to its response. *)
(* Every upstream call (.execute()) is one step; the reply of the upstream *)
(* is the nondeterministic input of that step.                             *)
(*                                                                         *)
(* Strings that the code inspects (names, texts, keywords) are sequences   *)
(* of one-character strings.  Optional values are records                  *)
(* [some |-> BOOLEAN, v |-> value]; None is the record with some = FALSE.  *)
(***************************************************************************)
EXTENDS Integers, Sequences, FiniteSets, TLC

\* ------------------------------------------------------------------------
\* Bounds of the model
\* ------------------------------------------------------------------------
MaxCount == 2          \* largest explicit max_videos / max_comments of a request
MaxPageItems == 2      \* most items one upstream page carries
MaxUploads == 3        \* most uploads a channel has
MaxRequests == 5       \* the count of upstream requests stops growing here

\* ------------------------------------------------------------------------
\* Program constants
\* ------------------------------------------------------------------------
VideoPageCap == 50
CommentPageCap == 100
DefaultMaxVideos == 50
DefaultMaxComments == 100

\* ------------------------------------------------------------------------
\* Python helpers
\* ------------------------------------------------------------------------
Min(a, b) == IF a < b THEN a ELSE b

NoneValue(empty) == [some |-> FALSE, v |-> empty]
Some(x) == [some |-> TRUE, v |-> x]

\* seq[:n] for n >= 0
TakeAll(s, n) == s
Take(s, n) == SubSeq(s, 1, Min(n, Len(s)))

UpperChars == <<"A", "B", "G", "L", "R">>
LowerChars == <<"a", "b", "g", "l", "r">>

LowerChar(ch) ==
    IF \E i \in 1..Len(UpperChars) : UpperChars[i] = ch
    THEN LowerChars[CHOOSE i \in 1..Len(UpperChars) : UpperChars[i] = ch]
    ELSE ch

\* str.lower()
lower(s) == [i \in 1..Len(s) |-> LowerChar(s[i])]

\* Python's  sub in s  on strings
Contains(sub, s) ==
    \E i \in 0..(Len(s) - Len(sub)) : SubSeq(s, i + 1, i + Len(sub)) = sub

\* Python truthiness of an optional string or list (as tested by  if x: )
TruthyNotNone(opt) == opt.some
Truthy(opt) == opt.some /\ Len(opt.v) > 0

\* isinstance(x, int): bool is a subclass of int
IsInstanceInt(x) == x.t \in {"int", "bool"}

\* ------------------------------------------------------------------------
\* The upstream data (environment)
\* ------------------------------------------------------------------------
ChannelIds == {"UC1", "UC2"}
NoChannel == "None"

Alice == <<"A", "l">>
Bob == <<"B", "o">>
Great == <<"G", "r", "a">>
Bad == <<"b", "a">>

Comment(a, t) == [authorDisplayName |-> a, textDisplay |-> t]

\* a channel whose videos have more comments than one page can carry
LongChannel == "UC3"
LongThread ==
    [i \in 1..(CommentPageCap + 1) |-> Comment(IF i % 2 = 1 THEN Alice ELSE Bob, Great)]

\* the comment threads of the v-th upload of channel c, in upstream order
Thread(c, v) ==
    IF c = LongChannel THEN LongThread
    ELSE IF c = "UC1"
    THEN CASE v = 1 -> <<Comment(Alice, Great), Comment(Bob, Great), Comment(Alice, Bad)>>
           [] v = 2 -> <<Comment(Bob, Bad)>>
           [] OTHER -> <<Comment(Alice, Great)>>
    ELSE CASE v = 1 -> <<Comment(Bob, Bad), Comment(Alice, Great), Comment(Bob, Great)>>
           [] v = 2 -> <<Comment(Alice, Bad), Comment(Alice, Great)>>
           [] OTHER -> <<>>

ErrorKinds == {"HttpError", "OtherError"}
\* continuation tokens: every page that has a successor carries a fresh token
NoToken == "None"
NextToken(tok) == IF tok = "tokA" THEN "tokB" ELSE "tokA"

\* ------------------------------------------------------------------------
\* Requests (inputs)
\* ------------------------------------------------------------------------
IntVal(n) == [t |-> "int", v |-> n]
Missing == [t |-> "missing", v |-> 0]
\* a JSON string; a JSON boolean, which Python reads as the int 0 or 1
StrVal == [t |-> "str", v |-> 0]
BoolVal(b) == [t |-> "bool", v |-> IF b THEN 1 ELSE 0]

\* values a request carries for max_videos / max_comments; Missing: key absent
ExplicitCounts == {IntVal(n) : n \in 1..MaxCount}
\* a count above both page-size caps
LargeCount == CommentPageCap + 1
MaxParams ==
    {IntVal(n) : n \in (-1)..MaxCount} \cup
    {IntVal(LargeCount), Missing, StrVal, BoolVal(TRUE), BoolVal(FALSE)}

ChannelUsernames == {<<"@", "@", "a">>, <<"a">>}
NameFilter == Some(<<"a", "L">>)
KeywordFilter == Some(<< <<"x">>, <<"g", "R">> >>)
UsernameFilters == {NoneValue(<<>>), Some(<<>>), NameFilter}
KeywordLists == {NoneValue(<<>>), Some(<<>>), KeywordFilter}

\* POST /api/crawl: every combination of filters with explicit counts, and
\* every combination of count parameters without filters
CrawlRequests ==
    [endpoint : {"crawl"}, has_key : BOOLEAN, channel_id : ChannelIds,
     channel_username : {<<>>}, username : UsernameFilters,
     keywords : KeywordLists, max_videos : ExplicitCounts, max_comments : ExplicitCounts]
    \cup
    [endpoint : {"crawl"}, has_key : {TRUE}, channel_id : {"UC1"},
     channel_username : {<<>>}, username : {NoneValue(<<>>)},
     keywords : {NoneValue(<<>>)}, max_videos : MaxParams, max_comments : MaxParams]
    \cup
    [endpoint : {"crawl"}, has_key : {TRUE}, channel_id : {LongChannel},
     channel_username : {<<>>}, username : {NoneValue(<<>>)},
     keywords : {NoneValue(<<>>)}, max_videos : {IntVal(1)},
     max_comments : {Missing, IntVal(LargeCount)}]

\* POST /api/by-username
ByUsernameRequests ==
    [endpoint : {"by_username"}, has_key : BOOLEAN, channel_id : {NoChannel},
     channel_username : ChannelUsernames, username : {NoneValue(<<>>), NameFilter},
     keywords : {NoneValue(<<>>)}, max_videos : ExplicitCounts, max_comments : ExplicitCounts]
    \cup
    [endpoint : {"by_username"}, has_key : {TRUE}, channel_id : {NoChannel},
     channel_username : {<<"a">>}, username : {NoneValue(<<>>)},
     keywords : {KeywordFilter}, max_videos : MaxParams, max_comments : MaxParams]

\* ------------------------------------------------------------------------
\* Pure functions of src/main.py
\* ------------------------------------------------------------------------
\* CommentFilter.filter_by_username
filter_by_username(cs, uname) ==
    LET u == lower(uname)
    IN  SelectSeq(cs, LAMBDA c : Contains(u, lower(c.authorDisplayName)))

\* any(keyword in comment_text for keyword in keywords)
AllKeywordsIn(kws, text) == \A i \in 1..Len(kws) : Contains(kws[i], text)
AnyKeywordIn(kws, text) == \E i \in 1..Len(kws) : Contains(kws[i], text)

\* CommentFilter.filter_by_content
filter_by_content(cs, keywords) ==
    LET kws == [i \in 1..Len(keywords) |-> lower(keywords[i])]
    IN  SelectSeq(cs, LAMBDA c : AnyKeywordIn(kws, lower(c.textDisplay)))

\* crawl_channel_comments, "Apply filters if provided"
apply_filters(cs, username_filter, content_keywords) ==
    LET byName == IF Truthy(username_filter)
                  THEN filter_by_username(cs, username_filter.v) ELSE cs
    IN  IF Truthy(content_keywords)
        THEN filter_by_content(byName, content_keywords.v) ELSE byName

\* YouTubeCommentCrawler.get_video_url
get_video_url(video_id) == <<"https://www.youtube.com/watch?v=", video_id>>

\* results[video_url] = filtered_comments
Put(res, key, val) ==
    [u \in DOMAIN res \cup {key} |-> IF u = key THEN val ELSE res[u]]

\* "Add to results if there are matching comments"
InsertAlways(res, video_id, fc) == Put(res, get_video_url(video_id), fc)
Insert(res, video_id, fc) ==
    IF fc # <<>> THEN Put(res, get_video_url(video_id), fc) ELSE res

\* return comments[:max_results]  reached through the except clause
RecoveredCommentsEmpty(cs, max_results) == <<>>
RecoveredComments(cs, max_results) == Take(cs, max_results)

\* maxResults of a page request
VideoPageSizeUncapped(max_results, have) == max_results - have
CommentPageSizeUncapped(max_results, have) == max_results - have
VideoPageSize(max_results, have) == Min(VideoPageCap, max_results - have)
CommentPageSize(max_results, have) == Min(CommentPageCap, max_results - have)

\* "Remove @ symbol if present"
StripEveryAt(u) ==
    LET k == CHOOSE n \in 0..Len(u) :
                 /\ \A i \in 1..n : u[i] = "@"
                 /\ (n < Len(u) => u[n + 1] # "@")
    IN  SubSeq(u, k + 1, Len(u))
StripAt(u) == IF Len(u) > 0 /\ Head(u) = "@" THEN Tail(u) ELSE u

\* except googleapiclient.errors.HttpError  in get_video_comments
CommentFetcherCatchesNothing(kind) == FALSE
CommentFetcherCatches(kind) == kind = "HttpError"

\* except Exception  in get_channel_id_from_username
ResolverCatchesHttpOnly(kind) == kind = "HttpError"
ResolverCatches(kind) == TRUE

\* except Exception  around the body of both POST handlers; the exception
\* api.abort raises (werkzeug HTTPException) is an Exception too
HandlerCatches(kind) == TRUE

\* not isinstance(x, int) or x <= 0
NotPositiveInt(x) == ~IsInstanceInt(x) \/ x.v <= 0

VARIABLES
    req,                \* the body of the POST request (api.payload)
    uploads,            \* number of uploads of the channel (upstream data)
    pc,                 \* position of the handler
    username,           \* get_channel_id_from_username: username after the strip
    channel_id,         \* the channel id the crawl runs on
    videos,             \* get_channel_videos: videos
    next_page_token,    \* next_page_token of the running pagination loop
    vidx,               \* crawl_channel_comments: index of the video of the for loop
    comments,           \* get_video_comments: comments
    fetched,            \* per processed video: what get_video_comments returned
    filtered_comments,  \* crawl_channel_comments: filtered_comments
    results,            \* crawl_channel_comments: results
    issued,             \* kinds of upstream requests issued so far
    last_request,       \* the last upstream request
    last_reply,         \* the upstream's reply to it
    well_paged,         \* every uploads page so far was served as the API documents
    crawl_outcome,      \* "none", "returned" or "raised"
    exc,                \* the exception crawl_channel_comments raised
    response,           \* the HTTP response
    n_requests,         \* number of upstream requests crawl_channel_comments issued
    full_pages          \* no request of the crawl failed and every page was full

vars == <<req, uploads, pc, username, channel_id, videos, next_page_token, vidx,
          comments, fetched, filtered_comments, results, issued, last_request,
          last_reply, well_paged, crawl_outcome, exc, response, n_requests,
          full_pages>>

\* data.get('max_videos', 50), data.get('max_comments', 100)
max_videos == IF req.max_videos.t = "missing" THEN IntVal(DefaultMaxVideos) ELSE req.max_videos
max_comments_per_video ==
    IF req.max_comments.t = "missing" THEN IntVal(DefaultMaxComments) ELSE req.max_comments

NoRequest == [kind |-> "none", q |-> <<>>, id |-> NoChannel, videoId |-> 0,
              maxResults |-> 0, pageToken |-> NoToken]
NoReply == [kind |-> "none", n |-> 0, token |-> NoToken, id |-> NoChannel]
NoResponse == [status |-> 0, video_count |-> 0, message |-> ""]
EmptyResults == [u \in {} |-> <<>>]

Init ==
    /\ req \in CrawlRequests \cup ByUsernameRequests
    /\ uploads \in 0..MaxUploads
    /\ pc = "post"
    /\ username = <<>>
    /\ channel_id = NoChannel
    /\ videos = <<>>
    /\ next_page_token = NoToken
    /\ vidx = 0
    /\ comments = <<>>
    /\ fetched = <<>>
    /\ filtered_comments = <<>>
    /\ results = EmptyResults
    /\ issued = {}
    /\ last_request = NoRequest
    /\ last_reply = NoReply
    /\ well_paged = TRUE
    /\ crawl_outcome = "none"
    /\ exc = "none"
    /\ response = NoResponse
    /\ n_requests = 0
    /\ full_pages = TRUE



\* ------------------------------------------------------------------------
\* Responses of the handlers
\* ------------------------------------------------------------------------
\* api.abort(code, message) outside the try block
Abort(code, message) == [status |-> code, video_count |-> 0, message |-> message]

\* api.abort(code, message) inside the try block: the exception it raises
\* reaches  except Exception as e: api.abort(500, str(e))
AbortInTry(code, message) ==
    IF HandlerCatches("HTTPException")
    THEN Abort(500, <<"HTTPException", code, message>>)
    ELSE Abort(code, message)

\* an exception of crawl_channel_comments reaching the handler
ErrorResponse(kind) == Abort(500, <<kind>>)

\* return {'success': True, 'video_count': len(formatted_results), ...}
Success(res) == [status |-> 200, video_count |-> Cardinality(DOMAIN res), message |-> ""]

Page(n, tok) == [kind |-> "page", n |-> n, token |-> tok, id |-> NoChannel]
Failure(kind) == [kind |-> kind, n |-> 0, token |-> NoToken, id |-> NoChannel]

\* crawl_channel_comments returns res and the handler answers
ReturnFromCrawl(res) ==
    /\ crawl_outcome' = "returned"
    /\ response' = Success(res)
    /\ pc' = "done"
    /\ exc' = exc

\* an exception leaves crawl_channel_comments and the handler answers
SwallowInCrawl(kind) ==
    /\ crawl_outcome' = "returned"
    /\ exc' = exc
    /\ response' = Success(results)
    /\ pc' = "done"
RaiseFromCrawl(kind) ==
    /\ crawl_outcome' = "raised"
    /\ exc' = kind
    /\ response' = ErrorResponse(kind)
    /\ pc' = "done"

\* ------------------------------------------------------------------------
\* CrawlComments.post / CrawlCommentsByUsername.post up to the try block
\* ------------------------------------------------------------------------
Post ==
    /\ pc = "post"
    /\ IF ~req.has_key
       THEN /\ response' = Abort(400, "Missing channel parameter")
            /\ pc' = "done"
            /\ channel_id' = channel_id
       ELSE IF NotPositiveInt(max_videos)
       THEN /\ response' = Abort(400, "max_videos must be a positive integer")
            /\ pc' = "done"
            /\ channel_id' = channel_id
       ELSE IF NotPositiveInt(max_comments_per_video)
       THEN /\ response' = Abort(400, "max_comments must be a positive integer")
            /\ pc' = "done"
            /\ channel_id' = channel_id
       ELSE IF req.endpoint = "crawl"
       THEN /\ channel_id' = req.channel_id
            /\ pc' = "channel_lookup"
            /\ response' = response
       ELSE /\ channel_id' = channel_id
            /\ pc' = "resolve_legacy"
            /\ response' = response
    /\ UNCHANGED <<req, uploads, username, videos, next_page_token, vidx, comments,
                   fetched, filtered_comments, results, issued, last_request,
                   last_reply, well_paged, crawl_outcome, exc, n_requests, full_pages>>

\* ------------------------------------------------------------------------
\* get_channel_id_from_username and the handler's  if not channel_id
\* ------------------------------------------------------------------------
\* the resolver returned None: api.abort(404, ...) inside the try block
ChannelNotFound ==
    /\ channel_id' = NoChannel
    /\ response' = AbortInTry(404, "Channel not found for username")
    /\ pc' = "done"

\* a lookup of the resolver raised
ResolverRaised(kind) ==
    IF ResolverCatches(kind)
    THEN ChannelNotFound
    ELSE /\ channel_id' = NoChannel
         /\ response' = ErrorResponse(kind)
         /\ pc' = "done"

ResolveLegacy ==
    /\ pc = "resolve_legacy"
    /\ username' = StripAt(req.channel_username)
    /\ last_request' = [NoRequest EXCEPT !.kind = "channels.forUsername", !.q = username']
    /\ issued' = issued \cup {"channels.forUsername"}
    /\ \/ \E kind \in ErrorKinds :
            /\ last_reply' = Failure(kind)
            /\ ResolverRaised(kind)
       \/ /\ last_reply' = Page(0, NoToken)
          /\ pc' = "resolve_search"
          /\ UNCHANGED <<channel_id, response>>
       \/ \E n \in 1..2, id \in ChannelIds :
            /\ last_reply' = [Page(n, NoToken) EXCEPT !.id = id]
            /\ channel_id' = id
            /\ pc' = "channel_lookup"
            /\ UNCHANGED response
    /\ UNCHANGED <<req, uploads, videos, next_page_token, vidx, comments, fetched,
                   filtered_comments, results, well_paged, crawl_outcome, exc,
                   n_requests, full_pages>>

ResolveSearch ==
    /\ pc = "resolve_search"
    /\ last_request' = [NoRequest EXCEPT !.kind = "search", !.q = <<"@">> \o username,
                                         !.maxResults = 1]
    /\ issued' = issued \cup {"search"}
    /\ \/ \E kind \in ErrorKinds :
            /\ last_reply' = Failure(kind)
            /\ ResolverRaised(kind)
       \/ /\ last_reply' = Page(0, NoToken)
          /\ ChannelNotFound
       \/ \E id \in ChannelIds :
            /\ last_reply' = [Page(1, NoToken) EXCEPT !.id = id]
            /\ channel_id' = id
            /\ pc' = "channel_lookup"
            /\ UNCHANGED response
    /\ UNCHANGED <<req, uploads, username, videos, next_page_token, vidx, comments,
                   fetched, filtered_comments, results, well_paged, crawl_outcome, exc,
                   n_requests, full_pages>>

\* ------------------------------------------------------------------------
\* get_channel_videos
\* ------------------------------------------------------------------------
\* one more request .execute()d by the crawl
CountRequest(n) == IF n < MaxRequests THEN n + 1 ELSE n

\* the page sizes the upstream may serve when asked items are requested and
\* remaining items are left: short pages, and the page that is full
PageSizes(asked, remaining) ==
    (0..Min(MaxPageItems, remaining)) \cup {Min(asked, remaining)}

\* the upstream served a full page: as many items as requested while that
\* many are left, and a continuation token exactly when items are left
FullPage(asked, remaining, k, tok) ==
    /\ k = Min(asked, remaining)
    /\ (tok # NoToken) <=> (remaining - k > 0)

\* get_channel_videos returned vs: the for loop of crawl_channel_comments
\* starts, or the crawl returns when there is no video
StartVideoLoop(vs) ==
    /\ videos' = vs
    /\ next_page_token' = NoToken
    /\ IF vs = <<>>
       THEN /\ vidx' = vidx
            /\ ReturnFromCrawl(results)
       ELSE /\ vidx' = 1
            /\ pc' = "comment_page"
            /\ UNCHANGED <<crawl_outcome, exc, response>>

ChannelLookup ==
    /\ pc = "channel_lookup"
    /\ last_request' = [NoRequest EXCEPT !.kind = "channels.id", !.id = channel_id]
    /\ issued' = issued \cup {"channels.id"}
    /\ n_requests' = CountRequest(n_requests)
    /\ full_pages' = full_pages
    /\ \/ \E kind \in ErrorKinds :
            /\ last_reply' = Failure(kind)
            /\ RaiseFromCrawl(kind)
            /\ UNCHANGED <<videos, next_page_token, vidx>>
       \/ /\ last_reply' = Page(0, NoToken)
          /\ StartVideoLoop(<<>>)
       \/ /\ last_reply' = [Page(1, NoToken) EXCEPT !.id = channel_id]
          /\ IF Len(videos) < max_videos.v
             THEN /\ pc' = "playlist_page"
                  /\ UNCHANGED <<videos, next_page_token, vidx, crawl_outcome, exc, response>>
             ELSE StartVideoLoop(Take(videos, max_videos.v))
    /\ UNCHANGED <<req, uploads, username, channel_id, comments, fetched,
                   filtered_comments, results, well_paged>>

\* the upstream served the page as documented: a non-empty page while uploads
\* remain, and a continuation token while uploads remain after the page
PageAsDocumented(have, k, tok) ==
    /\ (uploads - have > 0) => k >= 1
    /\ (uploads - (have + k) > 0) => tok # NoToken

VideoPage ==
    /\ pc = "playlist_page"
    /\ last_request' = [NoRequest EXCEPT !.kind = "playlistItems", !.id = channel_id,
                            !.maxResults = VideoPageSize(max_videos.v, Len(videos)),
                            !.pageToken = next_page_token]
    /\ issued' = issued \cup {"playlistItems"}
    /\ n_requests' = CountRequest(n_requests)
    /\ \/ \E kind \in ErrorKinds :
            /\ last_reply' = Failure(kind)
            /\ full_pages' = FALSE
            /\ RaiseFromCrawl(kind)
            /\ UNCHANGED <<videos, next_page_token, vidx, well_paged>>
       \/ \E k \in PageSizes(last_request'.maxResults, uploads - Len(videos)),
             tok \in {NoToken, NextToken(next_page_token)} :
            LET vs == videos \o [i \in 1..k |-> Len(videos) + i]
            IN  /\ last_reply' = Page(k, tok)
                /\ full_pages' = (full_pages /\ FullPage(last_request'.maxResults,
                                                         uploads - Len(videos), k, tok))
                /\ well_paged' = (well_paged /\ PageAsDocumented(Len(videos), k, tok))
                /\ IF tok = NoToken \/ ~(Len(vs) < max_videos.v)
                   THEN StartVideoLoop(Take(vs, max_videos.v))
                   ELSE /\ videos' = vs
                        /\ next_page_token' = tok
                        /\ UNCHANGED <<pc, vidx, crawl_outcome, exc, response>>
    /\ UNCHANGED <<req, uploads, username, channel_id, comments, fetched,
                   filtered_comments, results>>

\* ------------------------------------------------------------------------
\* get_video_comments and the body of the for loop of crawl_channel_comments
\* ------------------------------------------------------------------------
\* get_video_comments returned ret for videos[vidx]; err tells whether it
\* recovered from a failure
FinishVideo(ret, err) ==
    LET fc == apply_filters(ret, req.username, req.keywords)
        res == Insert(results, videos[vidx], fc)
    IN  /\ fetched' = Append(fetched, [videoId |-> videos[vidx], comments |-> ret, error |-> err])
        /\ filtered_comments' = fc
        /\ results' = res
        /\ comments' = <<>>
        /\ next_page_token' = NoToken
        /\ IF vidx < Len(videos)
           THEN /\ vidx' = vidx + 1
                /\ UNCHANGED <<pc, crawl_outcome, exc, response>>
           ELSE /\ vidx' = vidx
                /\ ReturnFromCrawl(res)

CommentPage ==
    /\ pc = "comment_page"
    /\ last_request' = [NoRequest EXCEPT !.kind = "commentThreads", !.videoId = videos[vidx],
                            !.maxResults = CommentPageSize(max_comments_per_video.v, Len(comments)),
                            !.pageToken = next_page_token]
    /\ issued' = issued \cup {"commentThreads"}
    /\ n_requests' = CountRequest(n_requests)
    /\ \/ \E kind \in ErrorKinds :
            /\ last_reply' = Failure(kind)
            /\ full_pages' = FALSE
            /\ IF CommentFetcherCatches(kind)
               THEN FinishVideo(RecoveredComments(comments, max_comments_per_video.v), kind)
               ELSE /\ RaiseFromCrawl(kind)
                    /\ UNCHANGED <<fetched, filtered_comments, results, comments,
                                   next_page_token, vidx>>
       \/ \E k \in PageSizes(last_request'.maxResults,
                              Len(Thread(channel_id, videos[vidx])) - Len(comments)),
             tok \in {NoToken, NextToken(next_page_token)} :
            LET cs == comments \o SubSeq(Thread(channel_id, videos[vidx]),
                                         Len(comments) + 1, Len(comments) + k)
            IN  /\ last_reply' = Page(k, tok)
                /\ full_pages' = (full_pages /\
                        FullPage(last_request'.maxResults,
                                 Len(Thread(channel_id, videos[vidx])) - Len(comments), k, tok))
                /\ IF tok = NoToken \/ Len(cs) >= max_comments_per_video.v
                   THEN FinishVideo(Take(cs, max_comments_per_video.v), "none")
                   ELSE /\ comments' = cs
                        /\ next_page_token' = tok
                        /\ UNCHANGED <<fetched, filtered_comments, results, pc, vidx,
                                       crawl_outcome, exc, response>>
    /\ UNCHANGED <<req, uploads, username, channel_id, videos, well_paged>>

Next ==
    \/ Post
    \/ ResolveLegacy
    \/ ResolveSearch
    \/ ChannelLookup
    \/ VideoPage
    \/ CommentPage

Spec == Init /\ [][Next]_vars

\* the handler runs to its response: one thread, blocking calls
FairSpec == Spec /\ WF_vars(Next)

\* ========================================================================
\* Properties
\* ========================================================================
CrawlRequestKinds == {"channels.id", "playlistItems", "commentThreads"}

\* a comment-page request is the last request and the upstream answered it
\* with a failure
CommentFetchFailed(kinds) ==
    last_request.kind = "commentThreads" /\ last_reply.kind \in kinds

\* C1: get_channel_videos and get_video_comments terminate against every
\* upstream, also one that returns a continuation token on every page and
\* pages without items: once a pagination loop runs, the handler reaches its
\* response.
C1_PaginationTerminates ==
    [](pc \in {"playlist_page", "comment_page"} => <>(pc = "done"))

\* the declarative condition of the filter stage on one comment, for filters
\* that are absent (some = FALSE) or supplied
NameCondition(uf, c) ==
    uf.some => Contains(lower(uf.v), lower(c.authorDisplayName))
KeywordCondition(kw, c) ==
    kw.some => \E i \in 1..Len(kw.v) : Contains(lower(kw.v[i]), lower(c.textDisplay))

\* an empty filter value read as an absent filter
NoneIfEmpty(opt) == IF opt.v = <<>> THEN NoneValue(<<>>) ELSE opt

\* the comment passes the filters of the request, an empty filter being absent
Matching(c) ==
    /\ NameCondition(NoneIfEmpty(req.username), c)
    /\ KeywordCondition(NoneIfEmpty(req.keywords), c)

HasMatch(cs) == \E j \in 1..Len(cs) : Matching(cs[j])

\* C2 (as stated): a failure of any kind while fetching the comments of a
\* video never aborts the crawl.
C2_AnyFailureIsolated ==
    CommentFetchFailed(ErrorKinds) => crawl_outcome # "raised"

\* C2 (amended): an HttpError while fetching the comments of a video never
\* aborts the crawl: the fetch is recovered, the crawl does not raise, and
\* when the crawl returns after such a failure every other video with a
\* matching comment is a key of the mapping.
C2_HttpErrorIsolated ==
    /\ CommentFetchFailed({"HttpError"}) =>
          /\ crawl_outcome # "raised"
          /\ fetched # <<>>
          /\ fetched[Len(fetched)].error = "HttpError"
          /\ fetched[Len(fetched)].videoId = last_request.videoId
    /\ \A k \in 1..Len(fetched) :
          (crawl_outcome = "returned" /\ fetched[k].error = "HttpError") =>
              \A i \in (1..Len(fetched)) \ {k} :
                  HasMatch(fetched[i].comments) =>
                      get_video_url(fetched[i].videoId) \in DOMAIN results

\* the comment fetch of the second of three processed videos failed, and the
\* first and the third are keys of the returned mapping
C2_Witness ==
    /\ crawl_outcome = "returned"
    /\ Len(fetched) >= 2
    /\ fetched[1].error = "none"
    /\ fetched[2].error = "HttpError"
    /\ get_video_url(fetched[1].videoId) \in DOMAIN results

\* C3 (as stated): whichever page the failure occurs on, get_video_comments
\* returns an empty sequence for the video.
C3_FailureGivesEmpty ==
    \A i \in 1..Len(fetched) :
        fetched[i].error # "none" => fetched[i].comments = <<>>

\* C3 (amended): when a comment-page request fails with an HttpError,
\* get_video_comments returns the comments of the pages fetched before the
\* failure, which is the empty sequence when the first page fails.
C3_FailureGivesAccumulated ==
    [][(pc = "comment_page" /\ last_reply'.kind = "HttpError") =>
          /\ Len(fetched') = Len(fetched) + 1
          /\ fetched'[Len(fetched')].videoId = videos[vidx]
          /\ fetched'[Len(fetched')].error = "HttpError"
          /\ fetched'[Len(fetched')].comments = comments
          /\ (next_page_token = NoToken => fetched'[Len(fetched')].comments = <<>>)
      ]_vars

\* a fetch that failed on a later page contributed the comments it had
C3_Witness ==
    \E i \in 1..Len(fetched) :
        fetched[i].error = "HttpError" /\ fetched[i].comments # <<>>

\* get_channel_id_from_username returned None to the by-username handler
ResolverReturnedNone ==
    /\ req.endpoint = "by_username"
    /\ pc = "done"
    /\ last_request.kind \in {"channels.forUsername", "search"}
    /\ channel_id = NoChannel
    /\ \/ last_reply.kind = "page" /\ last_reply.n = 0
       \/ last_reply.kind \in ErrorKinds /\ ResolverCatches(last_reply.kind)

\* C4: POST /api/by-username answers 404 whenever the resolver returns
\* not-found, and no request of the crawl is issued.
C4_NotFoundIs404 ==
    ResolverReturnedNone =>
        /\ response.status = 404
        /\ issued \cap CrawlRequestKinds = {}

\* C5: when the channel lookup or an uploads-page request raises,
\* crawl_channel_comments raises that failure and returns no mapping, no
\* comment request was or will be issued, and the handler answers 500 with
\* the message of the failure.
C5_ListingFailurePropagates ==
    (last_request.kind \in {"channels.id", "playlistItems"} /\ last_reply.kind \in ErrorKinds) =>
        /\ crawl_outcome = "raised"
        /\ exc = last_reply.kind
        /\ "commentThreads" \notin issued
        /\ results = EmptyResults
        /\ pc = "done"
        /\ response = ErrorResponse(last_reply.kind)
        /\ response.status = 500

\* an uploads page after the first one failed, on POST /api/crawl
C5_Witness ==
    /\ req.endpoint = "crawl"
    /\ last_request.kind = "playlistItems"
    /\ last_request.pageToken # NoToken
    /\ last_reply.kind \in ErrorKinds
    /\ videos # <<>>
    /\ response.status = 500

\* get_channel_videos returned and `videos` is the sequence it returned
ListingReturned ==
    pc # "playlist_page" /\ (vidx >= 1 \/ crawl_outcome = "returned")

\* C6: get_channel_videos(c, n) returns at most n videos, also when a page
\* carries more items than requested, and exactly n when the channel has at
\* least n uploads and every page was served non-empty and with a
\* continuation token while uploads remained.
C6_ListLength ==
    ListingReturned =>
        /\ Len(videos) <= max_videos.v
        /\ ("playlistItems" \in issued /\ well_paged /\ uploads >= max_videos.v) =>
               Len(videos) = max_videos.v

\* the last uploads page carried more items than requested and the list
\* returned has exactly max_videos videos
C6_Witness ==
    /\ ListingReturned
    /\ last_request.kind = "playlistItems"
    /\ last_request.pageToken # NoToken
    /\ last_reply.n > last_request.maxResults
    /\ well_paged
    /\ uploads > max_videos.v
    /\ Len(videos) = max_videos.v

\* the videos processed so far whose post-filter comment list is non-empty
KeptVideos ==
    {i \in 1..Len(fetched) :
        apply_filters(fetched[i].comments, req.username, req.keywords) # <<>>}

\* C7: the mapping crawl_channel_comments returns has as keys exactly the
\* URLs of the listed videos whose post-filter comment list is non-empty,
\* each mapped to that list; no key maps to an empty sequence.
C7_KeysAreVideosWithMatches ==
    crawl_outcome = "returned" =>
        /\ Len(fetched) = Len(videos)
        /\ \A i \in 1..Len(fetched) : fetched[i].videoId = videos[i]
        /\ DOMAIN results = {get_video_url(videos[i]) : i \in KeptVideos}
        /\ \A i \in KeptVideos :
              results[get_video_url(videos[i])] =
                  apply_filters(fetched[i].comments, req.username, req.keywords)
        /\ \A u \in DOMAIN results : results[u] # <<>>

\* a crawl returned with a video that is a key and a video with comments that
\* were all filtered out and that is not a key
C7_Witness ==
    /\ crawl_outcome = "returned"
    /\ Len(videos) >= 2
    /\ KeptVideos # {}
    /\ \E i \in 1..Len(fetched) :
          /\ fetched[i].comments # <<>>
          /\ i \notin KeptVideos
          /\ get_video_url(videos[i]) \notin DOMAIN results

\* out is the subsequence of cs, in the order of cs, of the comments that
\* satisfy P: the k-th comment of cs that satisfies P is the k-th of out
IsFilterOf(out, cs, P(_)) ==
    LET idx == {i \in 1..Len(cs) : P(cs[i])}
    IN  /\ Len(out) = Cardinality(idx)
        /\ \A i \in idx : out[Cardinality({m \in idx : m <= i})] = cs[i]

SuppliedCondition(c) ==
    NameCondition(req.username, c) /\ KeywordCondition(req.keywords, c)

\* C8: with filters that are absent or non-empty, the filtered list of a
\* video is exactly the subsequence of its fetched comments, in order, whose
\* lowercased author contains the lowercased username filter (when supplied)
\* and whose lowercased text contains a lowercased keyword (when supplied).
C8_FilteredIsMatchingSubsequence ==
    (fetched # <<>> /\ req.username # Some(<<>>) /\ req.keywords # Some(<<>>)) =>
        IsFilterOf(filtered_comments, fetched[Len(fetched)].comments, SuppliedCondition)

\* both filters supplied: of the fetched comments only one passes, and one
\* that passes the username stage fails the keyword stage
C8_Witness ==
    /\ fetched # <<>>
    /\ req.username = NameFilter
    /\ req.keywords = KeywordFilter
    /\ Len(fetched[Len(fetched)].comments) >= 2
    /\ Len(filtered_comments) = 1
    /\ \E j \in 1..Len(fetched[Len(fetched)].comments) :
          /\ NameCondition(req.username, fetched[Len(fetched)].comments[j])
          /\ ~KeywordCondition(req.keywords, fetched[Len(fetched)].comments[j])

\* C9: an empty username string or an empty keyword list gives the result
\* mapping that None gives for that filter; it never rejects every comment.
C9_EmptyFilterIsAbsent ==
    (crawl_outcome = "returned" /\ (req.username = Some(<<>>) \/ req.keywords = Some(<<>>))) =>
        \A i \in 1..Len(fetched) :
            IF HasMatch(fetched[i].comments)
            THEN /\ get_video_url(fetched[i].videoId) \in DOMAIN results
                 /\ IsFilterOf(results[get_video_url(fetched[i].videoId)],
                               fetched[i].comments, Matching)
            ELSE get_video_url(fetched[i].videoId) \notin DOMAIN results

\* a crawl with an empty keyword list returned a video with all its comments
C9_Witness ==
    /\ crawl_outcome = "returned"
    /\ req.keywords = Some(<<>>)
    /\ req.username = Some(<<>>)
    /\ \E i \in 1..Len(fetched) :
          /\ Len(fetched[i].comments) >= 2
          /\ get_video_url(fetched[i].videoId) \in DOMAIN results
          /\ results[get_video_url(fetched[i].videoId)] = fetched[i].comments

\* the argument with one leading "@" removed, if it has one
OneAtStripped(u) == IF u # <<>> /\ u[1] = "@" THEN [i \in 1..(Len(u) - 1) |-> u[i + 1]] ELSE u

\* C10: get_channel_id_from_username strips exactly one leading "@", issues
\* the legacy-username lookup first, returns the first match's id without a
\* search when that lookup has a match, and issues the search for
\* "@<username>" only after the legacy lookup returned no match.
C10_LegacyLookupFirst ==
    [][/\ (pc = "resolve_legacy") =>
             /\ last_request'.kind = "channels.forUsername"
             /\ last_request'.q = OneAtStripped(req.channel_username)
             /\ issued = {}
             /\ (last_reply'.kind = "page" /\ last_reply'.n >= 1) =>
                   /\ channel_id' = last_reply'.id
                   /\ pc' = "channel_lookup"
                   /\ "search" \notin issued'
       /\ ("search" \in issued' /\ "search" \notin issued) =>
             /\ last_request.kind = "channels.forUsername"
             /\ last_reply.kind = "page"
             /\ last_reply.n = 0
             /\ last_request'.kind = "search"
             /\ last_request'.q = <<"@">> \o OneAtStripped(req.channel_username)
       /\ (pc # "resolve_search") => (pc' # "resolve_search" \/ pc = "resolve_legacy")
      ]_vars

\* the handle "@@a" was resolved by the legacy lookup for "@a", and the crawl
\* goes on without a search
C10_Witness ==
    /\ req.channel_username = <<"@", "@", "a">>
    /\ last_request.kind = "channels.forUsername"
    /\ last_request.q = <<"@", "a">>
    /\ last_reply.n >= 2
    /\ channel_id = last_reply.id
    /\ pc = "channel_lookup"
    /\ "search" \notin issued

\* C11: an error raised by the legacy-username lookup or by the fallback
\* search is caught inside get_channel_id_from_username, which returns None:
\* the handler takes its  if not channel_id  branch and the error itself
\* never reaches the handler's except clause.
C11_ResolverErrorIsNotFound ==
    (last_request.kind \in {"channels.forUsername", "search"} /\ last_reply.kind \in ErrorKinds) =>
        /\ channel_id = NoChannel
        /\ pc = "done"
        /\ response = AbortInTry(404, "Channel not found for username")
        /\ response # ErrorResponse(last_reply.kind)
        /\ issued \cap CrawlRequestKinds = {}

\* the fallback search raised an error that is not an HttpError and the
\* handler took the not-found branch
C11_Witness ==
    /\ last_request.kind = "search"
    /\ last_reply.kind = "OtherError"
    /\ pc = "done"
    /\ response = AbortInTry(404, "Channel not found for username")

\* the value is supplied and is not a positive integer
NotAPositiveInteger(x) == x.t # "missing" /\ ~(x.t = "int" /\ x.v > 0)

\* C12: POST /api/crawl answers 400, with no upstream request issued, when
\* channel_id is missing or max_videos or max_comments is supplied and is
\* not a positive integer (-1, 0, a string, a boolean).
C12_InvalidRequestIs400 ==
    (/\ req.endpoint = "crawl"
     /\ pc # "post"
     /\ \/ ~req.has_key
        \/ NotAPositiveInteger(req.max_videos)
        \/ NotAPositiveInteger(req.max_comments)) =>
        /\ response.status = 400
        /\ issued = {}

\* C13: in a successful response video_count is the number of videos the
\* crawl processed (listed, and comments fetched).
C13_VideoCountIsProcessed ==
    response.status = 200 => response.video_count = Len(fetched)

\* r is the smaller of cap and want, and lies between 1 and cap
IsPageSize(r, cap, want) ==
    /\ r <= cap
    /\ r <= want
    /\ r = cap \/ r = want
    /\ 1 <= r

\* C14: every page request of both pagination loops asks for exactly
\* min(cap, max_count - accumulated) items, cap being 50 for videos and 100
\* for comments, a value between 1 and cap; a page request is issued only
\* while the accumulated count is below max_count and, after the first page,
\* only when the previous page carried a continuation token.
C14_PageRequests ==
    [][/\ (pc = "playlist_page") =>
             /\ last_request'.kind = "playlistItems"
             /\ IsPageSize(last_request'.maxResults, VideoPageCap,
                           max_videos.v - Len(videos))
             /\ Len(videos) < max_videos.v
             /\ last_request'.pageToken = next_page_token
             /\ (last_request.kind = "playlistItems") =>
                   /\ last_reply.kind = "page"
                   /\ last_reply.token # NoToken
                   /\ last_request'.pageToken = last_reply.token
       /\ (pc = "comment_page") =>
             /\ last_request'.kind = "commentThreads"
             /\ IsPageSize(last_request'.maxResults, CommentPageCap,
                           max_comments_per_video.v - Len(comments))
             /\ Len(comments) < max_comments_per_video.v
             /\ last_request'.pageToken = next_page_token
             /\ (last_request.kind = "commentThreads" /\ last_request.videoId = videos[vidx]) =>
                   /\ last_reply.kind = "page"
                   /\ last_reply.token # NoToken
                   /\ last_request'.pageToken = last_reply.token
       /\ (pc \notin {"playlist_page", "comment_page"}) =>
             last_request'.kind \notin {"playlistItems", "commentThreads"}
      ]_vars

\* a follow-up uploads page was requested with the cap of 50 items, more
\* than 50 videos being still wanted
C14_Witness ==
    /\ last_request.kind = "playlistItems"
    /\ last_request.pageToken # NoToken
    /\ max_videos.v = LargeCount
    /\ last_request.maxResults = VideoPageCap

\* ---------------------------------------------------------------------------
\* number of upstream requests of a crawl

CeilDiv(a, b) == (a + b - 1) \div b

AtLeastOne(n) == IF n < 1 THEN 1 ELSE n

\* sum over the first i processed videos of f(number of comments fetched)
RECURSIVE SumOverVideos(_, _)
SumOverVideos(f(_), i) ==
    IF i = 0 THEN 0 ELSE f(Len(fetched[i].comments)) + SumOverVideos(f, i - 1)

VideoPagesStated == CeilDiv(Len(videos), VideoPageCap)
CommentPagesStated(c) == CeilDiv(c, CommentPageCap)
CommentPagesIssued(c) == AtLeastOne(CeilDiv(c, CommentPageCap))

\* the crawl returned, every video listed was processed, and the count of its
\* requests is exact
CrawlCounted ==
    /\ crawl_outcome = "returned"
    /\ full_pages
    /\ n_requests < MaxRequests
    /\ Len(fetched) = Len(videos)

====
